---- MODULE Spec2Model ----
(***************************************************************************)
(* A model of the Enigma machine simulator of src/main.cpp: the alphabet   *)
(* utilities, the EnigmaComponent offset arithmetic, Rotor, Reflector,     *)
(* Plugboard and EnigmaMachine (stepping and the per-character chain).     *)
(*                                                                         *)
(* Characters are their ASCII codes, so that toupper, isalpha and the      *)
(* letter/index conversions are computed and not assumed.  A C++ string or *)
(* vector v is a sequence; the code's v[i] (0-based) is At(v, i).  Reading  *)
(* outside a string is undefined behaviour: At yields UB there, UB          *)
(* propagates through the chain, and an action whose computation met UB     *)
(* returns any value of UBChars.                                            *)
(***************************************************************************)
EXTENDS Integers, Sequences, FiniteSets, TLC

\* ------------------------------------------------------------------ bounds
\* Characters encrypted after one setRotorPositions (the length of hist).
MaxChars == 3
\* Length of a message given to encrypt.
MaxLen == 2
\* Rotors pushed into a vector handed to the EnigmaMachine constructor.
MaxRotors == 4

\* --------------------------------------------------------------- constants
ALPHABET_SIZE == 26
FIRST_LETTER == 65

\* The value of a read outside a string (undefined behaviour).
UB == 0 - 1
\* What such a read can produce where the result is observed.
UBChars == {0, 65, 63}

\* C++ a % b for b > 0: the remainder truncates towards zero, so it is
\* negative for a negative a.
CRem(a, b) == IF a >= 0 THEN a % b ELSE -((-a) % b)

toupper(c) == IF c \in 97..122 THEN c - 32 ELSE c

\* Mutant of isalpha: std::isgraph in its place (punctuation counts).
isalphaGraph(c) == c \in 33..126

isalpha(c) == c \in 65..90 \/ c \in 97..122

charToIndex(c) == toupper(c) - FIRST_LETTER

indexToChar(index) == FIRST_LETTER + CRem(index, ALPHABET_SIZE)

\* s[i] of a std::string, 0-based.
At(s, i) == IF i \in 0..(Len(s) - 1) THEN s[i + 1] ELSE UB

\* ------------------------------------------------------- historical wirings
WiringI == <<69, 75, 77, 70, 76, 71, 68, 81, 86, 90, 78, 84, 79,
             87, 89, 72, 88, 85, 83, 80, 65, 73, 66, 82, 67, 74>>
WiringII == <<65, 74, 68, 75, 83, 73, 82, 85, 88, 66, 76, 72, 87,
              84, 77, 67, 81, 71, 90, 78, 80, 89, 70, 86, 79, 69>>
WiringIII == <<66, 68, 70, 72, 74, 76, 67, 80, 82, 84, 88, 86, 90,
               78, 89, 69, 73, 87, 71, 65, 75, 77, 85, 83, 81, 79>>
WiringB == <<89, 82, 85, 72, 81, 83, 76, 68, 80, 88, 78, 71, 79,
             75, 77, 73, 69, 66, 70, 90, 67, 87, 86, 74, 65, 84>>
NotchI == 16
NotchII == 4
NotchIII == 21

\* ---------------------------------------------------------- EnigmaComponent
\* A component is a record; a Rotor adds reverseWiring and notchPosition.
setPosition(r, pos) == [r EXCEPT !.position = CRem(pos, ALPHABET_SIZE)]

setRingSetting(r, setting) == [r EXCEPT !.ringSetting = CRem(setting, ALPHABET_SIZE)]

\* Mutant of rotate: the ring setting turns with the rotor.
rotateWithRing(r) ==
    [r EXCEPT !.position = CRem(r.position + 1, ALPHABET_SIZE),
              !.ringSetting = CRem(r.ringSetting + 1, ALPHABET_SIZE)]

rotate(r) == [r EXCEPT !.position = CRem(r.position + 1, ALPHABET_SIZE)]

\* Mutant of applyOffset: the backward branch without "+ ALPHABET_SIZE".
applyOffsetNoWrap(r, signal, forward) ==
    LET d == r.position - r.ringSetting
        offset == IF d < 0 THEN d + ALPHABET_SIZE ELSE d
    IN  IF forward
        THEN CRem(signal + offset, ALPHABET_SIZE)
        ELSE CRem(signal - offset, ALPHABET_SIZE)

applyOffset(r, signal, forward) ==
    LET d == r.position - r.ringSetting
        offset == IF d < 0 THEN d + ALPHABET_SIZE ELSE d
    IN  IF forward
        THEN CRem(signal + offset, ALPHABET_SIZE)
        ELSE CRem(signal - offset + ALPHABET_SIZE, ALPHABET_SIZE)

\* ------------------------------------------------------------------- Rotor
\* The loop of buildReverseWiring from index i on; rev starts as 26 NULs.
RECURSIVE buildFrom(_, _, _)
buildFrom(wiring, rev, i) ==
    IF i >= ALPHABET_SIZE THEN rev
    ELSE LET outputIndex == charToIndex(At(wiring, i))
         IN  IF outputIndex \in 0..(ALPHABET_SIZE - 1)
             THEN buildFrom(wiring,
                            [rev EXCEPT ![outputIndex + 1] = indexToChar(i)],
                            i + 1)
             ELSE buildFrom(wiring, rev, i + 1)

\* Mutant of buildReverseWiring: the forward wiring copied, not inverted.
buildReverseWiringCopy(wiring) == wiring

buildReverseWiring(wiring) ==
    buildFrom(wiring, [k \in 1..ALPHABET_SIZE |-> 0], 0)

\* Rotor::Rotor after the base constructor accepted the wiring.
Rotor(wiring, notch) ==
    [wiring |-> wiring, position |-> 0, ringSetting |-> 0,
     reverseWiring |-> buildReverseWiring(wiring), notchPosition |-> notch]

\* The index Rotor::process uses to read wiring (or reverseWiring).
rotorIndex(r, input, forward) == applyOffset(r, charToIndex(input), forward)

rotorProcess(r, input, forward) ==
    IF input = UB THEN UB
    ELSE LET signal == rotorIndex(r, input, forward)
             outputChar == IF forward THEN At(r.wiring, signal)
                           ELSE At(r.reverseWiring, signal)
         IN  IF outputChar = UB THEN UB
             ELSE indexToChar(applyOffset(r, charToIndex(outputChar), ~forward))

isAtNotch(r) == r.position = r.notchPosition

setNotch(r, notch) == [r EXCEPT !.notchPosition = CRem(notch, ALPHABET_SIZE)]

\* --------------------------------------------------------------- Reflector
Reflector(wiring) == [wiring |-> wiring, position |-> 0, ringSetting |-> 0]

reflectorProcess(f, input) ==
    IF input = UB THEN UB ELSE At(f.wiring, charToIndex(input))

\* --------------------------------------------------------------- Plugboard
\* connections is the std::map<char, char>: a function on the keys it holds.
NoConnections == [c \in {} |-> 0]

\* Mutant of connectThrows: only the first letter is looked up.
connectThrowsFirst(conn, a, b) == toupper(a) \in DOMAIN conn

connectThrows(conn, a, b) ==
    toupper(a) \in DOMAIN conn \/ toupper(b) \in DOMAIN conn

\* Mutant of connectMap: connections[a] = b alone.
connectMapOneWay(conn, a, b) ==
    [c \in (DOMAIN conn) \cup {toupper(a)} |->
        IF c = toupper(a) THEN toupper(b) ELSE conn[c]]

\* connections[a] = b; connections[b] = a; (the second wins when a = b).
connectMap(conn, a, b) ==
    LET ua == toupper(a)
        ub == toupper(b)
    IN  [c \in (DOMAIN conn) \cup {ua, ub} |->
            IF c = ub THEN ua ELSE IF c = ua THEN ub ELSE conn[c]]

\* Mutant of clearConnections: the pairs are kept.
clearConnectionsKeep(conn) == conn

clearConnections(conn) == NoConnections

plugboardProcess(conn, input) ==
    IF input = UB THEN UB
    ELSE IF toupper(input) \in DOMAIN conn THEN conn[toupper(input)]
         ELSE toupper(input)

\* Mutant of alreadyAdded: the added flags are never consulted.
alreadyAddedNever(added, a) == FALSE

\* added[charToIndex(a)] of getConnections; added holds the indices set.
alreadyAdded(added, a) == charToIndex(a) \in added

\* The loop of getConnections over the keys not yet visited: std::map
\* iterates in increasing key order.
RECURSIVE listFrom(_, _, _, _)
listFrom(conn, keys, added, result) ==
    IF keys = {} THEN result
    ELSE LET a == CHOOSE k \in keys : \A other \in keys : k <= other
             b == conn[a]
         IN  IF ~alreadyAdded(added, a)
             THEN listFrom(conn, keys \ {a},
                           added \cup {charToIndex(a), charToIndex(b)},
                           result \o <<a, b, 32>>)
             ELSE listFrom(conn, keys \ {a}, added, result)

getConnections(conn) == listFrom(conn, DOMAIN conn, {}, <<>>)

\* ------------------------------------------------------------ EnigmaMachine
\* rotors is the std::vector<Rotor>: the code's rotors[i] is Rot(rs, i).
Rot(rs, i) == rs[i + 1]

rotateRotors(rs) ==
    LET right == rotate(Rot(rs, 2))
        rotateMiddle == isAtNotch(right)
        rotateLeft == isAtNotch(Rot(rs, 1))
        middle == IF rotateMiddle THEN rotate(Rot(rs, 1)) ELSE Rot(rs, 1)
        left1 == IF rotateMiddle THEN rotate(Rot(rs, 0)) ELSE Rot(rs, 0)
        left == IF rotateLeft THEN rotate(left1) ELSE left1
    IN  <<left, middle, right>>

\* Steps 2-6 of encryptChar: the signal after each of the nine stages.
chainPath(rs, refl, conn, input) ==
    LET p1 == plugboardProcess(conn, input)
        f2 == rotorProcess(Rot(rs, 2), p1, TRUE)
        f1 == rotorProcess(Rot(rs, 1), f2, TRUE)
        f0 == rotorProcess(Rot(rs, 0), f1, TRUE)
        rf == reflectorProcess(refl, f0)
        b0 == rotorProcess(Rot(rs, 0), rf, FALSE)
        b1 == rotorProcess(Rot(rs, 1), b0, FALSE)
        b2 == rotorProcess(Rot(rs, 2), b1, FALSE)
        p2 == plugboardProcess(conn, b2)
    IN  <<p1, f2, f1, f0, rf, b0, b1, b2, p2>>

chain(rs, refl, conn, input) == chainPath(rs, refl, conn, input)[9]

\* Mutant of encryptChar: the chain evaluated before the rotors step.
encryptCharThenStep(rs, refl, conn, input) ==
    [rotors |-> rotateRotors(rs), out |-> chain(rs, refl, conn, input)]

\* encryptChar: the rotors it leaves and the character it returns.
encryptChar(rs, refl, conn, input) ==
    LET stepped == rotateRotors(rs)
    IN  [rotors |-> stepped, out |-> chain(stepped, refl, conn, input)]

Positions(rs) == [i \in 1..Len(rs) |-> rs[i].position]

\* encrypt from character i (1-based) of message on: the rotors it leaves, the
\* result string, and the positions after each encryptChar call it made.
RECURSIVE encryptFrom(_, _, _, _, _, _, _)
encryptFrom(rs, refl, conn, message, i, result, steps) ==
    IF i > Len(message)
    THEN [rotors |-> rs, result |-> result, steps |-> steps]
    ELSE IF isalpha(message[i])
         THEN LET e == encryptChar(rs, refl, conn, message[i])
              IN  encryptFrom(e.rotors, refl, conn, message, i + 1,
                              Append(result, e.out),
                              Append(steps, Positions(e.rotors)))
         ELSE encryptFrom(rs, refl, conn, message, i + 1,
                          Append(result, message[i]), steps)

encrypt(rs, refl, conn, message) ==
    encryptFrom(rs, refl, conn, message, 1, <<>>, <<>>)

setRotorPositions(rs, left, middle, right) ==
    <<setPosition(Rot(rs, 0), left), setPosition(Rot(rs, 1), middle),
      setPosition(Rot(rs, 2), right)>>

setRingSettings(rs, left, middle, right) ==
    <<setRingSetting(Rot(rs, 0), left), setRingSetting(Rot(rs, 1), middle),
      setRingSetting(Rot(rs, 2), right)>>

\* setPlugboardConnections from pair i (1-based) of the list on, the map
\* cleared before the first: the map it leaves and whether connect threw.
RECURSIVE connectFrom(_, _, _)
connectFrom(conn, list, i) ==
    IF i > Len(list) THEN [connections |-> conn, threw |-> FALSE]
    ELSE IF connectThrows(conn, list[i][1], list[i][2])
         THEN [connections |-> conn, threw |-> TRUE]
         ELSE connectFrom(connectMap(conn, list[i][1], list[i][2]), list, i + 1)

setPlugboardConnections(conn, list) == connectFrom(clearConnections(conn), list, 1)

\* Mutant of machineThrows: only too few rotors are refused.
machineThrowsFewer(rs) == Len(rs) < 3

\* EnigmaMachine::EnigmaMachine
machineThrows(rs) == Len(rs) # 3

\* ------------------------------------------------------------ EnigmaFactory
createRotorI(position, ringSetting) ==
    setRingSetting(setPosition(Rotor(WiringI, NotchI), position), ringSetting)

createRotorII(position, ringSetting) ==
    setRingSetting(setPosition(Rotor(WiringII, NotchII), position), ringSetting)

createRotorIII(position, ringSetting) ==
    setRingSetting(setPosition(Rotor(WiringIII, NotchIII), position), ringSetting)

createReflectorB == Reflector(WiringB)

\* ------------------------------------------------------------------- state
VARIABLES
    rotors,       \* the machine's std::vector<Rotor> (or the vector being built)
    reflector,    \* the machine's Reflector
    connections,  \* the Plugboard's map
    hist,         \* rotor positions at the last setRotorPositions and after
                  \* each encryptChar call since
    op,           \* the last call: its name and arguments
    out,          \* what it returned (a character, a string, a listing)
    err,          \* whether it threw std::invalid_argument
    prev          \* rotors, connections and hist as they were before the call

vars == <<rotors, reflector, connections, hist, op, out, err, prev>>

Snapshot == [rotors |-> rotors, connections |-> connections, hist |-> hist]

NoOp == [name |-> "none"]

\* ------------------------------------------------------------------ inputs
\* Arguments of setRotorPositions: the calls of main, positions next to the
\* notches, and values outside 0..25.
PosInputs == {<<0, 0, 20>>, <<0, 4, 20>>, <<0, 1, 2>>, <<25, 30, 0 - 27>>,
              <<0 - 25, 0 - 25, 0 - 25>>}

RingInputs == {<<0, 0, 0>>, <<1, 2, 3>>, <<0 - 1, 27, 5>>}

\* 'A', 'H', 'h', 'Z'
LetterInputs == {65, 72, 104, 90}

\* 'e', ','
MessageChars == {101, 44}

RECURSIVE SeqsUpTo(_, _)
SeqsUpTo(S, n) ==
    IF n = 0 THEN {<<>>}
    ELSE LET shorter == SeqsUpTo(S, n - 1)
         IN  shorter \cup {Append(q, c) : q \in {x \in shorter : Len(x) = n - 1}, c \in S}

Messages == SeqsUpTo(MessageChars, MaxLen)

\* AB CD EF (main), AB AC (A in two pairs), none
PlugLists == {<<<<65, 66>>, <<67, 68>>, <<69, 70>>>>, <<<<65, 66>>, <<65, 67>>>>, <<>>}

AlphaCount(message) == Cardinality({i \in 1..Len(message) : isalpha(message[i])})

\* The values a computed character can be observed as.
Observed(c) == IF c = UB THEN UBChars ELSE {c}

ObservedString(q) ==
    {r \in [1..Len(q) -> UNION {Observed(q[i]) : i \in 1..Len(q)}] :
        \A i \in 1..Len(q) : r[i] \in Observed(q[i])}

\* ----------------------------------------------------------------- machine
\* The two machines main assembles before it configures them.
MainMachines ==
    {<<createRotorI(0, 0), createRotorII(0, 0), createRotorIII(0, 0)>>,
     <<createRotorIII(5, 1), createRotorII(10, 2), createRotorI(15, 3)>>}

Init ==
    /\ rotors \in MainMachines
    /\ reflector = createReflectorB
    /\ connections = NoConnections
    /\ hist = <<Positions(rotors)>>
    /\ op = NoOp
    /\ out = <<>>
    /\ err = FALSE
    /\ prev = [rotors |-> rotors, connections |-> NoConnections,
               hist |-> <<Positions(rotors)>>]

SetRotorPositions ==
    \E p \in PosInputs :
        /\ rotors' = setRotorPositions(rotors, p[1], p[2], p[3])
        /\ hist' = <<Positions(rotors')>>
        /\ op' = [name |-> "setRotorPositions", arg |-> p]
        /\ out' = <<>>
        /\ err' = FALSE
        /\ prev' = Snapshot
        /\ UNCHANGED <<reflector, connections>>

SetRingSettings ==
    \E p \in RingInputs :
        /\ rotors' = setRingSettings(rotors, p[1], p[2], p[3])
        /\ op' = [name |-> "setRingSettings", arg |-> p]
        /\ out' = <<>>
        /\ err' = FALSE
        /\ prev' = Snapshot
        /\ UNCHANGED <<reflector, connections, hist>>

SetPlugboardConnections ==
    \E list \in PlugLists :
        LET r == setPlugboardConnections(connections, list)
        IN  /\ connections' = r.connections
            /\ err' = r.threw
            /\ op' = [name |-> "setPlugboardConnections", arg |-> list]
            /\ out' = <<>>
            /\ prev' = Snapshot
            /\ UNCHANGED <<rotors, reflector, hist>>

EncryptChar ==
    \E c \in LetterInputs :
        /\ Len(hist) <= MaxChars
        /\ LET e == encryptChar(rotors, reflector, connections, c)
           IN  /\ rotors' = e.rotors
               /\ out' \in Observed(e.out)
        /\ hist' = Append(hist, Positions(rotors'))
        /\ op' = [name |-> "encryptChar", arg |-> c]
        /\ err' = FALSE
        /\ prev' = Snapshot
        /\ UNCHANGED <<reflector, connections>>

Encrypt ==
    \E message \in Messages :
        /\ Len(hist) + AlphaCount(message) <= MaxChars + 1
        /\ LET e == encrypt(rotors, reflector, connections, message)
           IN  /\ rotors' = e.rotors
               /\ out' \in ObservedString(e.result)
               /\ hist' = hist \o e.steps
        /\ op' = [name |-> "encrypt", arg |-> message]
        /\ err' = FALSE
        /\ prev' = Snapshot
        /\ UNCHANGED <<reflector, connections>>

Next ==
    \/ SetRotorPositions
    \/ SetRingSettings
    \/ SetPlugboardConnections
    \/ EncryptChar
    \/ Encrypt

Spec == Init /\ [][Next]_vars

\* --------------------------------------------------------------- plugboard
\* A Plugboard on its own (Plugboard(), or the machine's through
\* getPlugboard()), driven by connect and clearConnections.
\* 'A', 'B', 'C', 'D', 'a'
PlugChars == {65, 66, 67, 68, 97}

InitPlug ==
    /\ rotors = <<>>
    /\ reflector = createReflectorB
    /\ connections = NoConnections
    /\ hist = <<>>
    /\ op = NoOp
    /\ out = <<>>
    /\ err = FALSE
    /\ prev = [rotors |-> <<>>, connections |-> NoConnections, hist |-> <<>>]

Connect ==
    \E a \in PlugChars, b \in PlugChars :
        /\ err' = connectThrows(connections, a, b)
        /\ connections' = IF connectThrows(connections, a, b) THEN connections
                          ELSE connectMap(connections, a, b)
        /\ op' = [name |-> "connect", arg |-> <<a, b>>]
        /\ out' = <<>>
        /\ prev' = Snapshot
        /\ UNCHANGED <<rotors, reflector, hist>>

ClearConnections ==
    /\ connections' = clearConnections(connections)
    /\ op' = [name |-> "clearConnections"]
    /\ out' = <<>>
    /\ err' = FALSE
    /\ prev' = Snapshot
    /\ UNCHANGED <<rotors, reflector, hist>>

Process ==
    \E c \in PlugChars :
        /\ out' = plugboardProcess(connections, c)
        /\ op' = [name |-> "process", arg |-> c]
        /\ err' = FALSE
        /\ prev' = Snapshot
        /\ UNCHANGED <<rotors, reflector, connections, hist>>

GetConnections ==
    /\ out' = getConnections(connections)
    /\ op' = [name |-> "getConnections"]
    /\ err' = FALSE
    /\ prev' = Snapshot
    /\ UNCHANGED <<rotors, reflector, connections, hist>>

NextPlug == Connect \/ ClearConnections \/ Process \/ GetConnections

SpecPlug == InitPlug /\ [][NextPlug]_vars

\* ------------------------------------------------------------ construction
\* Components built from wiring strings, the rotors pushed into a vector.
WiringDup == <<65, 65, 67, 68, 69, 70, 71, 72, 73, 74, 75, 76, 77,
               78, 79, 80, 81, 82, 83, 84, 85, 86, 87, 88, 89, 90>>

\* Wiring strings: permutations, a 26-letter string with 'A' twice and no 'B',
\* and strings of 25, 27 and 0 characters.
WiringInputs ==
    {WiringI, WiringII, WiringDup, SubSeq(WiringI, 1, 25), Append(WiringII, 65),
     <<>>}

\* The notch given with each wiring.
NotchOf(w) == IF w = WiringI THEN NotchI ELSE NotchII

NoComponent == [wiring |-> <<>>]

\* EnigmaComponent::EnigmaComponent
componentThrows(wiring) == Len(wiring) # ALPHABET_SIZE

InitCtor ==
    /\ rotors = <<>>
    /\ reflector = NoComponent
    /\ connections = NoConnections
    /\ hist = <<>>
    /\ op = NoOp
    /\ out = <<>>
    /\ err = FALSE
    /\ prev = [rotors |-> <<>>, connections |-> NoConnections, hist |-> <<>>]

NewRotor ==
    \E w \in WiringInputs :
        /\ hist = <<>>
        /\ Len(rotors) < MaxRotors
        /\ err' = componentThrows(w)
        /\ rotors' = IF componentThrows(w) THEN rotors
                     ELSE Append(rotors, Rotor(w, NotchOf(w)))
        /\ op' = [name |-> "Rotor", arg |-> <<w, NotchOf(w)>>]
        /\ prev' = Snapshot
        /\ UNCHANGED <<reflector, connections, hist, out>>

NewReflector ==
    \E w \in WiringInputs :
        /\ hist = <<>>
        /\ err' = componentThrows(w)
        /\ reflector' = IF componentThrows(w) THEN reflector ELSE Reflector(w)
        /\ op' = [name |-> "Reflector", arg |-> w]
        /\ prev' = Snapshot
        /\ UNCHANGED <<rotors, connections, hist, out>>

\* EnigmaMachine(rotors, reflector): the machine copies the vector and the
\* reflector; hist is empty until a machine exists.
NewMachine ==
    /\ hist = <<>>
    /\ reflector # NoComponent
    /\ err' = machineThrows(rotors)
    /\ hist' = IF machineThrows(rotors) THEN <<>> ELSE <<Positions(rotors)>>
    /\ op' = [name |-> "EnigmaMachine", arg |-> Len(rotors)]
    /\ prev' = Snapshot
    /\ UNCHANGED <<rotors, reflector, connections, out>>

\* encryptChar('A') on the machine constructed.
MachineEncryptChar ==
    /\ hist # <<>>
    /\ Len(hist) <= MaxChars
    /\ LET e == encryptChar(rotors, reflector, connections, 65)
       IN  /\ rotors' = e.rotors
           /\ out' \in Observed(e.out)
    /\ hist' = Append(hist, Positions(rotors'))
    /\ op' = [name |-> "encryptChar", arg |-> 65]
    /\ err' = FALSE
    /\ prev' = Snapshot
    /\ UNCHANGED <<reflector, connections>>

NextCtor == NewRotor \/ NewReflector \/ NewMachine \/ MachineEncryptChar

SpecCtor == InitCtor /\ [][NextCtor]_vars

\* --------------------------------------------------------------- round trip
\* What main does in examples 2 and 3: set the rotor positions, encrypt a
\* text, set the same positions again, encrypt the result.
StartInputs == {<<0, 1, 2>>, <<5, 10, 15>>, <<0, 0, 20>>, <<0, 0, 0>>}

ValidRingInputs == {<<0, 0, 0>>, <<1, 2, 3>>}

ValidPlugLists == {<<<<65, 66>>, <<67, 68>>, <<69, 70>>>>, <<>>}

\* 'H', 'A', 'E'
PlainChars == {72, 65, 69}

PlainTexts == SeqsUpTo(PlainChars, MaxLen) \ {<<>>}

InitRoundTrip ==
    \E m \in MainMachines, s \in StartInputs, g \in ValidRingInputs,
       list \in ValidPlugLists, text \in PlainTexts :
        /\ rotors = setRotorPositions(setRingSettings(m, g[1], g[2], g[3]),
                                      s[1], s[2], s[3])
        /\ reflector = createReflectorB
        /\ connections = setPlugboardConnections(NoConnections, list).connections
        /\ hist = <<s>>
        /\ op = [name |-> "setRotorPositions", arg |-> s, text |-> text]
        /\ out = <<>>
        /\ err = FALSE
        /\ prev = [rotors |-> rotors, connections |-> connections, hist |-> <<s>>]

EncryptText ==
    /\ op.name = "setRotorPositions"
    /\ out = <<>>
    /\ LET e == encrypt(rotors, reflector, connections, op.text)
       IN  /\ rotors' = e.rotors
           /\ out' \in ObservedString(e.result)
           /\ hist' = hist \o e.steps
    /\ op' = [op EXCEPT !.name = "encrypt"]
    /\ prev' = Snapshot
    /\ UNCHANGED <<reflector, connections, err>>

ResetPositions ==
    /\ op.name = "encrypt"
    /\ rotors' = setRotorPositions(rotors, op.arg[1], op.arg[2], op.arg[3])
    /\ hist' = <<Positions(rotors')>>
    /\ op' = [op EXCEPT !.name = "setRotorPositions"]
    /\ prev' = Snapshot
    /\ UNCHANGED <<reflector, connections, out, err>>

EncryptAgain ==
    /\ op.name = "setRotorPositions"
    /\ out # <<>>
    /\ LET e == encrypt(rotors, reflector, connections, out)
       IN  /\ rotors' = e.rotors
           /\ out' \in ObservedString(e.result)
           /\ hist' = hist \o e.steps
    /\ op' = [op EXCEPT !.name = "encryptAgain"]
    /\ prev' = Snapshot
    /\ UNCHANGED <<reflector, connections, err>>

NextRoundTrip == EncryptText \/ ResetPositions \/ EncryptAgain

SpecRoundTrip == InitRoundTrip /\ [][NextRoundTrip]_vars

\* -------------------------------------------------------------- one rotor
\* A Rotor on its own, as EnigmaFactory and the machine use it: constructed
\* from a wiring of 26 characters, then configured, rotated and read.
RotorPosInputs == {0, 5, 27, 0 - 3}

RotorRingInputs == {0, 2, 25}

RotorNotchInputs == {4, 30}

\* 'A', 'J', 'z'
RotorCharInputs == {65, 74, 122}

InitRotor ==
    \E w \in {x \in WiringInputs : ~componentThrows(x)} :
        /\ rotors = <<Rotor(w, NotchOf(w))>>
        /\ reflector = NoComponent
        /\ connections = NoConnections
        /\ hist = <<>>
        /\ op = NoOp
        /\ out = <<>>
        /\ err = FALSE
        /\ prev = [rotors |-> rotors, connections |-> NoConnections, hist |-> <<>>]

RotorRotate ==
    /\ rotors' = <<rotate(rotors[1])>>
    /\ op' = [name |-> "rotate"]
    /\ prev' = Snapshot
    /\ UNCHANGED <<reflector, connections, hist, out, err>>

RotorSetPosition ==
    \E p \in RotorPosInputs :
        /\ rotors' = <<setPosition(rotors[1], p)>>
        /\ op' = [name |-> "setPosition", arg |-> p]
        /\ prev' = Snapshot
        /\ UNCHANGED <<reflector, connections, hist, out, err>>

RotorSetRingSetting ==
    \E g \in RotorRingInputs :
        /\ rotors' = <<setRingSetting(rotors[1], g)>>
        /\ op' = [name |-> "setRingSetting", arg |-> g]
        /\ prev' = Snapshot
        /\ UNCHANGED <<reflector, connections, hist, out, err>>

RotorSetNotch ==
    \E n \in RotorNotchInputs :
        /\ rotors' = <<setNotch(rotors[1], n)>>
        /\ op' = [name |-> "setNotch", arg |-> n]
        /\ prev' = Snapshot
        /\ UNCHANGED <<reflector, connections, hist, out, err>>

RotorProcess ==
    \E c \in RotorCharInputs, forward \in BOOLEAN :
        /\ out' \in Observed(rotorProcess(rotors[1], c, forward))
        /\ op' = [name |-> "process", arg |-> c, forward |-> forward]
        /\ prev' = Snapshot
        /\ UNCHANGED <<rotors, reflector, connections, hist, err>>

NextRotor ==
    \/ RotorRotate
    \/ RotorSetPosition
    \/ RotorSetRingSetting
    \/ RotorSetNotch
    \/ RotorProcess

SpecRotor == InitRotor /\ [][NextRotor]_vars

\* ------------------------------------------------------------------ claims
UpperLetters == 65..90

Letters == UpperLetters \cup (97..122)

\* The spec's "alphabetic character", stated apart from the code's isalpha.
Alphabetic(c) == c \in Letters

InRange(n) == n \in 0..(ALPHABET_SIZE - 1)

\* Positions and ring settings as the data model has them: all in 0..25.
ValidState(rs) ==
    \A i \in 1..Len(rs) : InRange(rs[i].position) /\ InRange(rs[i].ringSetting)

Advanced(before, after) == after = (before + 1) % ALPHABET_SIZE

IsMachineI_II_III(rs) ==
    /\ Rot(rs, 0).wiring = WiringI /\ Rot(rs, 0).notchPosition = 16
    /\ Rot(rs, 1).wiring = WiringII /\ Rot(rs, 1).notchPosition = 4
    /\ Rot(rs, 2).wiring = WiringIII /\ Rot(rs, 2).notchPosition = 21

\* C2: on every stepping transition (one per encryptChar call) in which the
\* middle rotor is at its notch before any rotation of the step, the middle
\* rotor advances by one position and the left rotor advances by one position.
\* Stated for positions in 0..25.
C2_DoubleStep ==
    (/\ op.name = "encryptChar"
     /\ ValidState(prev.rotors)
     /\ isAtNotch(Rot(prev.rotors, 1)))
    => /\ Advanced(Rot(prev.rotors, 1).position, Rot(rotors, 1).position)
       /\ Advanced(Rot(prev.rotors, 0).position, Rot(rotors, 0).position)

\* C3: with rotors I/II/III started at (0,0,20), the first encrypted character
\* moves the right rotor to 21 and does not move the middle rotor; the middle
\* rotor advances on the second character, so that after two steps it has
\* advanced exactly once.
C3_ReferenceSequence ==
    (IsMachineI_II_III(rotors) /\ hist[1] = <<0, 0, 20>>)
    => /\ Len(hist) >= 2 => hist[2][2] = 0 /\ hist[2][3] = 21
       /\ Len(hist) >= 3 => hist[3][2] = 1

\* C4: at a fixed machine state (positions and ring settings in 0..25),
\* encryptChar maps the 26 letters to 26 distinct letters.
C4_Bijective ==
    ValidState(rotors) =>
        LET image == {encryptChar(rotors, reflector, connections, a).out :
                        a \in UpperLetters}
        IN  image \subseteq UpperLetters /\ Cardinality(image) = ALPHABET_SIZE

\* C4 witness: a configured machine (plugboard pairs, ring settings, stepped
\* rotors) on which a character has just been encrypted.
C4_Witness ==
    /\ ValidState(rotors)
    /\ op.name = "encryptChar"
    /\ connections # NoConnections
    /\ Rot(rotors, 2).ringSetting # 0
    /\ Len(hist) > 2

\* C5: encrypt(text) copies every non-alphabetic character to the same index
\* of its result and changes no machine state for it: the result is as long as
\* the text, the rotors step once per alphabetic character (they end where
\* encrypting the alphabetic characters alone leaves them; from a start in
\* 0..25 the right rotor ends at start + their number mod 26), and nothing
\* else changes.
C5_Passthrough ==
    op.name = "encrypt" =>
        LET text == op.arg
            alpha == {i \in 1..Len(text) : Alphabetic(text[i])}
            lettersOnly == SelectSeq(text, Alphabetic)
            start == Rot(prev.rotors, 2).position
        IN  /\ Len(out) = Len(text)
            /\ \A i \in 1..Len(text) : i \notin alpha => out[i] = text[i]
            /\ Len(hist) = Len(prev.hist) + Cardinality(alpha)
            /\ InRange(start) =>
                  Rot(rotors, 2).position
                     = (start + Cardinality(alpha)) % ALPHABET_SIZE
            /\ rotors = encrypt(prev.rotors, reflector, prev.connections,
                                lettersOnly).rotors
            /\ connections = prev.connections
            /\ ~err

\* C5 witness: encrypt of a text that mixes a letter and a non-letter.
C5_Witness ==
    /\ op.name = "encrypt"
    /\ ValidState(prev.rotors)
    /\ Len(op.arg) = 2
    /\ \E i, j \in 1..2 : Alphabetic(op.arg[i]) /\ ~Alphabetic(op.arg[j])
    /\ out[1] # op.arg[1]

\* The indices one encryptChar(c) call uses to read wiring tables.
LookupIndices(rs, refl, conn, c) ==
    LET stepped == rotateRotors(rs)
        path == chainPath(stepped, refl, conn, c)
    IN  <<rotorIndex(Rot(stepped, 2), path[1], TRUE),
          rotorIndex(Rot(stepped, 1), path[2], TRUE),
          rotorIndex(Rot(stepped, 0), path[3], TRUE),
          charToIndex(path[4]),
          rotorIndex(Rot(stepped, 0), path[5], FALSE),
          rotorIndex(Rot(stepped, 1), path[6], FALSE),
          rotorIndex(Rot(stepped, 2), path[7], FALSE)>>

\* C7: with positions and ring settings in 0..25, after any number of
\* encrypted characters, encryptChar on any letter of either case does not
\* fail, reads every wiring table at an index in 0..25 and returns an
\* uppercase letter.
C7_TotalClosed ==
    ValidState(rotors) =>
        /\ \A c \in Letters :
              LET used == LookupIndices(rotors, reflector, connections, c)
              IN  /\ \A k \in 1..7 : InRange(used[k])
                  /\ encryptChar(rotors, reflector, connections, c).out
                        \in UpperLetters
        /\ op.name = "encryptChar" /\ ValidState(prev.rotors)
              => ~err /\ out \in UpperLetters

\* C7 witness: a lowercase letter encrypted after earlier characters, with
\* ring settings other than zero.
C7_Witness ==
    /\ ValidState(rotors) /\ ValidState(prev.rotors)
    /\ op.name = "encryptChar" /\ op.arg \in 97..122
    /\ Len(hist) > 2
    /\ Rot(rotors, 0).ringSetting # 0
    /\ out \in UpperLetters

\* C8: whatever integers setRotorPositions and setRingSettings are given,
\* every rotor's position and ring setting is in 0..25 in every state.
C8_RangeKept == ValidState(rotors)

\* C1: for a valid configuration and a start in 0..25, encrypting an uppercase
\* text, setting the rotor positions to the start again and encrypting the
\* result returns the text.
C1_Involution == op.name = "encryptAgain" => out = op.text

Paired(conn, x) == toupper(x) \in DOMAIN conn

\* C6: after a successful connect(a,b), process(a) is b and process(b) is a
\* (letters in their uppercase form); a connect(x,y) in which x or y is already
\* paired fails with a configuration error and leaves the mapping as it was.
C6_Connect ==
    op.name = "connect" =>
        /\ ~err => /\ plugboardProcess(connections, op.arg[1]) = toupper(op.arg[2])
                   /\ plugboardProcess(connections, op.arg[2]) = toupper(op.arg[1])
        /\ (Paired(prev.connections, op.arg[1]) \/ Paired(prev.connections, op.arg[2]))
              => err /\ connections = prev.connections

\* C6 witness: a connect that succeeded on a plugboard that already held a
\* pair, and then a connect that failed on it.
C6_Witness ==
    /\ op.name = "connect" /\ err
    /\ Cardinality(DOMAIN connections) = 2
    /\ op.arg[1] # op.arg[2]
    /\ ~Paired(connections, op.arg[1])

\* C9: no Rotor or Reflector with a wiring that is not a permutation of the
\* alphabet exists: constructing one fails.
IsPermutation(wiring) ==
    /\ Len(wiring) = ALPHABET_SIZE
    /\ {toupper(wiring[i]) : i \in 1..Len(wiring)} = UpperLetters

C9_WiringValidated ==
    /\ \A i \in 1..Len(rotors) : IsPermutation(rotors[i].wiring)
    /\ reflector # NoComponent => IsPermutation(reflector.wiring)

\* C10: after any connect and clear calls the plugboard mapping is its own
\* inverse, every letter is in at most one pair, each pair joins two distinct
\* letters, and there are at most 13 pairs.
C10_PlugboardInvariant ==
    /\ \A c \in DOMAIN connections :
          /\ connections[c] \in DOMAIN connections
          /\ connections[connections[c]] = c
          /\ connections[c] # c
    /\ Cardinality(DOMAIN connections) <= 26

\* ------------------------------------------- the chain as the spec states it
\* The functional inverse of a permutation wiring: inverse[wiring[i]] = i.
InverseOf(wiring) ==
    [k \in 1..ALPHABET_SIZE |->
        FIRST_LETTER - 1
          + (CHOOSE i \in 1..ALPHABET_SIZE : toupper(wiring[i]) = FIRST_LETTER - 1 + k)]

\* Rotor.process of the spec: with o = (position - ringSetting) mod 26 the
\* offset is added on entry and subtracted on exit in both directions.
RefProcess(r, x, forward) ==
    LET o == (r.position - r.ringSetting) % ALPHABET_SIZE
        table == IF forward THEN r.wiring ELSE InverseOf(r.wiring)
        entered == (toupper(x) - FIRST_LETTER + o) % ALPHABET_SIZE
    IN  FIRST_LETTER
          + ((toupper(table[entered + 1]) - FIRST_LETTER - o) % ALPHABET_SIZE)

\* Steps 2-6 of the spec's encryptChar at rotors rs.
RefChain(rs, refl, conn, c) ==
    LET p1 == plugboardProcess(conn, c)
        f2 == RefProcess(Rot(rs, 2), p1, TRUE)
        f1 == RefProcess(Rot(rs, 1), f2, TRUE)
        f0 == RefProcess(Rot(rs, 0), f1, TRUE)
        rf == refl.wiring[f0 - FIRST_LETTER + 1]
        b0 == RefProcess(Rot(rs, 0), rf, FALSE)
        b1 == RefProcess(Rot(rs, 1), b0, FALSE)
        b2 == RefProcess(Rot(rs, 2), b1, FALSE)
    IN  plugboardProcess(conn, b2)

PlugsAB_CD_EF ==
    (65 :> 66) @@ (66 :> 65) @@ (67 :> 68) @@ (68 :> 67) @@ (69 :> 70) @@ (70 :> 69)

\* C11: rotors I/II/III, reflector B, ring settings 0, positions (0,1,2),
\* plugboard AB CD EF: encryptChar('H') returns the letter the chain of the
\* spec gives after the step (which leaves the rotors at (0,1,3)).
C11_ConcreteVector ==
    (/\ op = [name |-> "encryptChar", arg |-> 72]
     /\ IsMachineI_II_III(prev.rotors)
     /\ Positions(prev.rotors) = <<0, 1, 2>>
     /\ \A i \in 1..3 : prev.rotors[i].ringSetting = 0
     /\ prev.connections = PlugsAB_CD_EF)
    => /\ Positions(rotors) = <<0, 1, 3>>
       /\ out = RefChain(rotors, reflector, connections, 72)

\* C14: Rotor.process adds the offset on entry and subtracts it on exit in
\* both directions: it returns what the spec's five steps return, and
\* process(process(x, forward), backward) is x for every letter x.
C14_ProcessAsSpecified ==
    (IsPermutation(rotors[1].wiring) /\ ValidState(rotors)) =>
        /\ op.name = "process" => out = RefProcess(rotors[1], op.arg, op.forward)
        /\ \A x \in UpperLetters :
              rotorProcess(rotors[1], rotorProcess(rotors[1], x, TRUE), FALSE) = x

StepOf(before, after) == after = before \/ Advanced(before, after)

\* C15: in one stepping transition every rotor's position changes by 0 or by
\* +1 mod 26; the left rotor never advances by two.
C15_SingleAdvance ==
    (op.name = "encryptChar" /\ ValidState(prev.rotors)) =>
        \A i \in 1..3 : StepOf(prev.rotors[i].position, rotors[i].position)

\* C16: every encryptChar call steps the rotors before the substitution
\* chain: the letter returned is the chain at the rotor positions the call
\* leaves, which are the stepped ones.
C16_StepThenSubstitute ==
    op.name = "encryptChar" =>
        /\ rotors = rotateRotors(prev.rotors)
        /\ Rot(rotors, 2).position # Rot(prev.rotors, 2).position
        /\ out \in Observed(chain(rotors, reflector, connections, op.arg))

\* C16 witness: the first encryptChar after setRotorPositions, whose letter
\* differs from the chain at the positions held before the call.
C16_Witness ==
    /\ op.name = "encryptChar"
    /\ Len(hist) = 2
    /\ ValidState(prev.rotors)
    /\ out # chain(prev.rotors, reflector, connections, op.arg)
    /\ out = chain(rotors, reflector, connections, op.arg)

\* C17: encryptChar and encrypt change the rotor positions only: ring
\* settings, notches, forward and inverse wirings, the reflector and the
\* plugboard mapping are as before the call.
C17_EncryptionFrame ==
    op.name \in {"encryptChar", "encrypt"} =>
        /\ Len(rotors) = Len(prev.rotors)
        /\ \A i \in 1..Len(rotors) :
              [rotors[i] EXCEPT !.position = prev.rotors[i].position]
                 = prev.rotors[i]
        /\ connections = prev.connections
        /\ reflector = createReflectorB

\* C17 witness: an encrypt call that moved the rotors of a machine with ring
\* settings and plugboard pairs.
C17_Witness ==
    /\ op.name = "encrypt"
    /\ Positions(rotors) # Positions(prev.rotors)
    /\ connections # NoConnections
    /\ Rot(rotors, 1).ringSetting # 0

\* C18: for every constructed rotor whose forward wiring is a permutation,
\* inverseWiring[forwardWiring[i]] = i for all i, also after rotate,
\* setPosition, setRingSetting, setNotch and process.
C18_InverseWiring ==
    \A n \in 1..Len(rotors) :
        IsPermutation(rotors[n].wiring) =>
            \A i \in 0..(ALPHABET_SIZE - 1) :
                charToIndex(At(rotors[n].reverseWiring,
                               charToIndex(At(rotors[n].wiring, i)))) = i

\* C18 witness: a permutation rotor after its notch was set, turned away from
\* position 0 with a ring setting.
C18_Witness ==
    /\ IsPermutation(rotors[1].wiring)
    /\ rotors[1].wiring # rotors[1].reverseWiring
    /\ op.name = "rotate"
    /\ rotors[1].ringSetting # 0
    /\ rotors[1].notchPosition # NotchOf(rotors[1].wiring)

\* C19: with a reflector that is self-inverse and has no fixed point, at
\* positions and ring settings in 0..25, encryptChar never returns the letter
\* it was given.
C19_NoSelfEncryption ==
    (op.name = "encryptChar" /\ ValidState(prev.rotors)) => out # toupper(op.arg)

\* C12: constructing the machine with a rotor list whose size is not 3 fails
\* with a configuration error, so every machine that exists holds exactly
\* three rotors in every state.
C12_ThreeRotors ==
    /\ op.name = "EnigmaMachine" =>
          /\ err <=> op.arg # 3
          /\ err => hist = <<>>
    /\ hist # <<>> => Len(rotors) = 3

\* C12 witness: the constructor refused a vector of four rotors.
C12_Witness ==
    /\ op.name = "EnigmaMachine"
    /\ err
    /\ Len(rotors) = 4

\* C13: the connection listing emits each pair exactly once, the pairs in
\* increasing order of their lower letter (so it depends on the pairs only,
\* not on the order of the connect calls).
C13_Listing ==
    op.name = "getConnections" =>
        LET n == Len(out) \div 3
            first(k) == out[3 * k - 2]
            second(k) == out[3 * k - 1]
        IN  /\ Len(out) = 3 * n
            /\ \A k \in 1..n :
                  /\ out[3 * k] = 32
                  /\ first(k) \in DOMAIN connections
                  /\ connections[first(k)] = second(k)
                  /\ first(k) <= second(k)
            /\ \A k \in 1..(n - 1) : first(k) < first(k + 1)
            /\ \A c \in DOMAIN connections :
                  \E k \in 1..n : c \in {first(k), second(k)}

\* C13 witness: a listing of two pairs of distinct letters.
C13_Witness ==
    /\ op.name = "getConnections"
    /\ Len(out) = 6
    /\ out[1] # out[2]
    /\ out[4] # out[5]

\* The mapping that holds exactly the pairs of a list.
PairsMap(list) ==
    [c \in UNION {{toupper(list[i][1]), toupper(list[i][2])} : i \in 1..Len(list)} |->
        LET i == CHOOSE j \in 1..Len(list) :
                    c \in {toupper(list[j][1]), toupper(list[j][2])}
        IN  IF toupper(list[i][1]) = c THEN toupper(list[i][2])
            ELSE toupper(list[i][1])]

\* The index of the first pair of a list with a letter of an earlier pair
\* (Len(list) + 1 when there is none).
FirstConflict(list) ==
    LET clash(i) == \E j \in 1..(i - 1) :
                        {toupper(list[i][1]), toupper(list[i][2])}
                          \cap {toupper(list[j][1]), toupper(list[j][2])} # {}
        bad == {i \in 1..Len(list) : clash(i)}
    IN  IF bad = {} THEN Len(list) + 1
        ELSE CHOOSE i \in bad : \A j \in bad : i <= j

\* C20 as claimed: setPlugboardConnections(list) installs exactly the pairs of
\* list, or fails and leaves the plugboard mapping as it was before the call.
C20_AtomicReplace ==
    op.name = "setPlugboardConnections" =>
        IF err THEN connections = prev.connections
        ELSE connections = PairsMap(op.arg)

\* C20 as amended: setPlugboardConnections(list) removes all prior pairs; it
\* installs exactly the pairs of list, or, when list has a letter in two
\* pairs, fails and leaves exactly the pairs of list before the first pair
\* with an already paired letter.
C20_ReplaceUpToConflict ==
    op.name = "setPlugboardConnections" =>
        LET k == FirstConflict(op.arg)
        IN  /\ err <=> k <= Len(op.arg)
            /\ connections = PairsMap(SubSeq(op.arg, 1, k - 1))

\* C20 witness: a failed call that left neither the prior pairs nor none.
C20_Witness ==
    /\ op.name = "setPlugboardConnections"
    /\ err
    /\ connections # prev.connections
    /\ connections # NoConnections
    /\ prev.connections # NoConnections

====
